---- MODULE Spec2Model ----
(***************************************************************************)
(* A model of src/src/deploy.py: the deploy() command that duplicates the  *)
(* pynecone-on-spaces template Space, builds a list of commit operations   *)
(* from the local project layout and pushes it with create_commit.         *)
(*                                                                         *)
(* Paths are sequences of path components.  A commit operation is a record *)
(* [op, path, is_folder, content].  The remote Space is the record         *)
(* `remote`; the Hub is the environment of the program.                    *)
(***************************************************************************)
EXTENDS Integers, Sequences, FiniteSets, TLC

VARIABLES
    fs_files,        \* local filesystem: absolute paths that are regular files
    fs_dirs,         \* local filesystem: absolute paths that are directories
    cwd_readme,      \* Path("README.md").is_file() in the working directory
    match,           \* re.search(...) on the text of pcconfig.py: None or the group
    remote,          \* the target Space on the Hub
    runs,            \* number of deploy() invocations started so far
    pc,              \* position of the running deploy() invocation
    app_name,        \* local variable app_name
    repo_id,         \* local variable repo_id
    status_code,     \* response.status_code of the duplicate request
    is_new,          \* local variable is_new (Unbound until assigned)
    operations,      \* local variable operations
    net_calls,       \* network calls made by the running invocation, in order
    error,           \* the exception that terminated the invocation, or None
    commit_message,  \* commit message handed to create_commit
    text,            \* input of the pure-function specifications
    result,          \* output of the pure-function specifications
    phase            \* position of the pure-function specifications

vars == <<fs_files, fs_dirs, cwd_readme, match, remote, runs, pc, app_name,
          repo_id, status_code, is_new, operations, net_calls, error,
          commit_message, text, result, phase>>

layout_vars == <<fs_files, fs_dirs, cwd_readme, match>>
fn_vars == <<text, result, phase>>

(***************************************************************************)
(* Bounds of the model.                                                    *)
(***************************************************************************)
MaxRuns == 2
MaxNameLen == 3
MaxTextLen == 5

None == "<None>"
Unbound == "<unbound>"

(***************************************************************************)
(* Generic helpers on sequences and sets.                                  *)
(***************************************************************************)
Range(s) == {s[i] : i \in 1..Len(s)}

IsPrefix(p, s) == Len(p) <= Len(s) /\ SubSeq(s, 1, Len(p)) = p

SeqsUpTo(S, n) == UNION {[1..k -> S] : k \in 0..n}

\* every ordering of a finite set, as sequences without repetition
Orderings(S) ==
    {f \in [1..Cardinality(S) -> S] : \A i, j \in 1..Cardinality(S) : f[i] = f[j] => i = j}

(***************************************************************************)
(* Characters.  A string of the program is a sequence of one-character     *)
(* strings; "U+00E9" stands for the single non-ASCII letter e-acute.       *)
(***************************************************************************)
AsciiLetters ==
    {"a","b","c","d","e","f","g","h","i","j","k","l","m","n","o","p","q","r",
     "s","t","u","v","w","x","y","z","A","B","C","D","E","F","G","H","I","J",
     "K","L","M","N","O","P","Q","R","S","T","U","V","W","X","Y","Z"}

Digits == {"0","1","2","3","4","5","6","7","8","9"}

\* the characters the claim allows in a curated name: [A-Za-z0-9-]
SlugChars == AsciiLetters \cup Digits \cup {"-"}

\* \w of a Python 3 str pattern: Unicode alphanumerics and the underscore
IsWordChar(c) == c \in AsciiLetters \cup Digits \cup {"_", "U+00E9"}

\* re.sub(r"\W", "-", s)
SubNonWord(s) == [i \in 1..Len(s) |-> IF IsWordChar(s[i]) THEN s[i] ELSE "-"]

\* re.sub(r"-+", "-", s)
RECURSIVE CollapseHyphens(_)
CollapseHyphens(s) ==
    IF Len(s) <= 1 THEN s
    ELSE IF s[1] = "-" /\ s[2] = "-" THEN CollapseHyphens(Tail(s))
    ELSE <<s[1]>> \o CollapseHyphens(Tail(s))

RECURSIVE LStripHyphens(_)
LStripHyphens(s) ==
    IF s # <<>> /\ s[1] = "-" THEN LStripHyphens(Tail(s)) ELSE s

RECURSIVE RStripHyphens(_)
RStripHyphens(s) ==
    IF s # <<>> /\ s[Len(s)] = "-" THEN RStripHyphens(SubSeq(s, 1, Len(s) - 1)) ELSE s

\* s.strip("-")
StripHyphens(s) == RStripHyphens(LStripHyphens(s))

\* curated_app_name = re.sub(r"-+", "-", re.sub(r"\W", "-", app_name)).strip("-")
CuratedName(s) == StripHyphens(CollapseHyphens(SubNonWord(s)))

(***************************************************************************)
(* The regular expression  app_name=["'](?P<app_name>.+)["'],  searched in *)
(* a text.  The text is a sequence of tokens: KW is the literal            *)
(* "app_name=", the other tokens are single characters.                    *)
(***************************************************************************)
KW == "app_name="
DQ == "\""
SQ == "'"
NL == "\n"
COMMA == ","
Quotes == {DQ, SQ}

\* the ends j of the group when the match starts at i: the group is t[i+2..j]
GroupEnds(t, i) ==
    {j \in (i + 2)..(Len(t) - 2) :
        /\ t[i] = KW
        /\ t[i + 1] \in Quotes
        /\ \A k \in (i + 2)..j : t[k] # NL
        /\ t[j + 1] \in Quotes
        /\ t[j + 2] = COMMA}

SetMax(S) == CHOOSE x \in S : \A y \in S : y <= x
SetMin(S) == CHOOSE x \in S : \A y \in S : x <= y

\* re.search: the leftmost start that matches, and there the greedy (longest) group
RegexSearch(t) ==
    LET starts == {i \in 1..Len(t) : GroupEnds(t, i) # {}}
    IN  IF starts = {} THEN [found |-> FALSE, group |-> <<>>]
        ELSE LET i == SetMin(starts)
             IN  [found |-> TRUE, group |-> SubSeq(t, i + 2, SetMax(GroupEnds(t, i)))]

(***************************************************************************)
(* The local project layout.                                               *)
(***************************************************************************)
AppNames == {"demo", "assets", "Dockerfile"}

\* the characters of an app name
NameChars(n) ==
    CASE n = "demo" -> <<"d","e","m","o">>
      [] n = "assets" -> <<"a","s","s","e","t","s">>
      [] n = "Dockerfile" -> <<"D","o","c","k","e","r","f","i","l","e">>

\* pcconfig_path.parent after resolve(): an absolute directory
Root == <<"home", "user", "project">>

PcconfigPath == Root \o <<"pcconfig.py">>

AssetCandidates == {<<"assets", "logo.png">>, <<"assets", "img", "a.png">>}

AppCandidates(n) ==
    {<<n, "index.py">>, <<n, "__pycache__", "index.pyc">>, <<n, "clear__pycache__.py">>}

\* the file names of the model that have "__pycache__" as a substring
PycacheNames == {"__pycache__", "clear__pycache__.py"}

\* "__pycache__" in str(path): the substring lies inside one component
ContainsPycache(path) == \E i \in 1..Len(path) : path[i] \in PycacheNames

\* a cache artifact: a file inside a directory named __pycache__
IsCacheArtifact(path) == \E i \in 1..(Len(path) - 1) : path[i] = "__pycache__"

is_file(path) == path \in fs_files
is_dir(path) == path \in fs_dirs

\* path.relative_to(base)
relative_to(path, base) == SubSeq(path, Len(base) + 1, Len(path))

\* dir.glob("**/*"): everything below dir, files and directories
glob(dir) == {p \in fs_files \cup fs_dirs : IsPrefix(dir, p) /\ Len(p) > Len(dir)}

\* the directories a set of relative file paths implies
DirsOf(files) ==
    {Root \o SubSeq(f, 1, k) : f \in files, k \in 1..2} \ {Root \o f : f \in files}

(***************************************************************************)
(* Commit operations and the remote Space.                                 *)
(***************************************************************************)
CommitOperationAdd(path, content) ==
    [op |-> "add", path |-> path, is_folder |-> FALSE, content |-> content]

CommitOperationDelete(path, folder) ==
    [op |-> "delete", path |-> path, is_folder |-> folder, content |-> None]

TemplateFiles ==
    {<<"README.md">>, <<"pcconfig_docker.py">>, <<"Dockerfile">>,
     <<"requirements.txt">>, <<"assets", "favicon.ico">>,
     <<"default_app", "default_app.py">>}

NoRemote == [exists |-> FALSE, files |-> {}, pcconfig |-> None, dockerfile |-> None]

\* what the duplicate endpoint creates: a copy of the template Space
TemplateCopy ==
    [exists |-> TRUE, files |-> TemplateFiles,
     pcconfig |-> "default_app", dockerfile |-> "default_app"]

\* content.replace("default_app", app_name), content being the app the file names
ReplaceDefaultApp(content, name) == IF content = "default_app" THEN name ELSE content

ApplyOp(r, o) ==
    IF o.op = "delete"
    THEN [r EXCEPT !.files =
            IF o.is_folder
            THEN {f \in @ : ~(IsPrefix(o.path, f) /\ Len(f) > Len(o.path))}
            ELSE @ \ {o.path}]
    ELSE [r EXCEPT !.files = @ \cup {o.path},
                   !.pcconfig = IF o.path = <<"pcconfig_docker.py">> THEN o.content ELSE @,
                   !.dockerfile = IF o.path = <<"Dockerfile">> THEN o.content ELSE @]

RECURSIVE ApplyOps(_, _)
ApplyOps(r, ops) ==
    IF ops = <<>> THEN r ELSE ApplyOps(ApplyOp(r, Head(ops)), Tail(ops))

(***************************************************************************)
(* deploy(): the initial state and one action per stage of the function.   *)
(***************************************************************************)
RunInit ==
    /\ pc = "start"
    /\ app_name = None
    /\ repo_id = <<>>
    /\ status_code = 0
    /\ is_new = Unbound
    /\ operations = <<>>
    /\ net_calls = <<>>
    /\ error = None
    /\ commit_message = None

FnIdle ==
    /\ text = <<>>
    /\ result = [found |-> FALSE, group |-> <<>>]
    /\ phase = "idle"

\* every local layout: the config file and what its text matches, the two
\* folders and their files, requirements.txt and README.md
Init ==
    /\ \E cfg \in BOOLEAN, req \in BOOLEAN :
       \E m \in IF cfg THEN AppNames \cup {None} ELSE {None} :
       \E top \in SUBSET ({"assets"} \cup ({m} \ {None})) :
       \E files \in SUBSET {f \in AssetCandidates \cup
                                   (IF m = None THEN {} ELSE AppCandidates(m)) :
                               f[1] \in top} :
            /\ match = m
            /\ fs_files = {Root \o f : f \in files}
                          \cup (IF cfg THEN {PcconfigPath} ELSE {})
                          \cup (IF req THEN {Root \o <<"requirements.txt">>} ELSE {})
            /\ fs_dirs = {Root \o <<d>> : d \in top} \cup DirsOf(files)
    /\ cwd_readme \in BOOLEAN
    /\ remote = NoRemote
    /\ runs = 1
    /\ RunInit
    /\ FnIdle

Raise(e) ==
    /\ pc' = "failed"
    /\ error' = e

\* lines 25-27
CheckPcconfigFile ==
    /\ pc = "start"
    /\ IF is_file(PcconfigPath)
       THEN pc' = "search" /\ error' = error
       ELSE Raise("ValueError: Could not find pcconfig file")
    /\ UNCHANGED <<layout_vars, remote, runs, app_name, repo_id, status_code, is_new,
                   operations, net_calls, commit_message, fn_vars>>

\* lines 28-33
ExtractAppName ==
    /\ pc = "search"
    /\ IF match = None
       THEN Raise("ValueError: Could not find app_name") /\ app_name' = app_name
       ELSE pc' = "check_app" /\ app_name' = match /\ error' = error
    /\ UNCHANGED <<layout_vars, remote, runs, repo_id, status_code, is_new,
                   operations, net_calls, commit_message, fn_vars>>

app_path == Root \o <<app_name>>
assets_path == Root \o <<"assets">>

\* the assets check left out
AssetsPathOk_Unchecked == TRUE

AppPathOk == is_dir(app_path)
AssetsPathOk == is_dir(assets_path)

\* lines 36-38
CheckAppPath ==
    /\ pc = "check_app"
    /\ IF AppPathOk
       THEN pc' = "check_assets" /\ error' = error
       ELSE Raise("ValueError: Could not find app folder")
    /\ UNCHANGED <<layout_vars, remote, runs, app_name, repo_id, status_code, is_new,
                   operations, net_calls, commit_message, fn_vars>>

\* lines 41-43
CheckAssetsPath ==
    /\ pc = "check_assets"
    /\ IF AssetsPathOk
       THEN pc' = "whoami" /\ error' = error
       ELSE Raise("ValueError: Could not find assets folder")
    /\ UNCHANGED <<layout_vars, remote, runs, app_name, repo_id, status_code, is_new,
                   operations, net_calls, commit_message, fn_vars>>

\* lines 46-56: whoami, which fails when not logged in, then the repo id
Whoami ==
    /\ pc = "whoami"
    /\ net_calls' = Append(net_calls, "whoami")
    /\ \/ /\ pc' = "duplicate"
          /\ repo_id' = <<"user", CuratedName(NameChars(app_name))>>
          /\ error' = error
       \/ /\ Raise("HfHubHTTPError")
          /\ repo_id' = repo_id
    /\ UNCHANGED <<layout_vars, remote, runs, app_name, status_code, is_new,
                   operations, commit_message, fn_vars>>

\* the error statuses the duplicate endpoint answers with, besides 409
ErrorStatuses == {401, 500}

\* every error status taken for a conflict
IsNewAfter_AnyErrorIsConflict(status) == IF status = 200 THEN "True" ELSE "False"

\* lines 65-72: is_new after hf_raise_for_status(response) and the except clause
IsNewAfter(status) ==
    CASE status = 200 -> "True"
      [] status = 409 -> "False"
      [] OTHER -> Unbound

\* lines 59-72: the duplicate request and the handling of its status
DuplicateRepo ==
    /\ pc = "duplicate"
    /\ net_calls' = Append(net_calls, "duplicate")
    /\ \/ /\ ~remote.exists
          /\ status_code' = 200
          /\ remote' = TemplateCopy
       \/ /\ remote.exists
          /\ status_code' = 409
          /\ remote' = remote
       \/ /\ status_code' \in ErrorStatuses
          /\ remote' = remote
    /\ is_new' = IsNewAfter(status_code')
    /\ pc' = "prepare"
    /\ UNCHANGED <<layout_vars, runs, app_name, repo_id, operations, error,
                   commit_message, fn_vars>>

\* the configuration files rewritten on every deploy
ConfigBranch_AlwaysNew == "readme"

\* lines 80 and 147: where the function goes on once is_new is read
ConfigBranch == IF is_new = "True" THEN "readme" ELSE "requirements"

\* lines 78-80: the empty list, then the read of is_new
PrepareOperations ==
    /\ pc = "prepare"
    /\ operations' = <<>>
    /\ IF is_new = Unbound
       THEN Raise("UnboundLocalError: is_new")
       ELSE /\ pc' = ConfigBranch
            /\ error' = error
    /\ UNCHANGED <<layout_vars, remote, runs, app_name, repo_id, status_code, is_new,
                   net_calls, commit_message, fn_vars>>

\* lines 88-105: the text of the card
ReadmeText == IF cwd_readme THEN "local README.md" ELSE "synthesized"

\* lines 82-108
SetupReadme ==
    /\ pc = "readme"
    /\ net_calls' = Append(net_calls, "RepoCard.load")
    /\ \/ /\ operations' = Append(operations,
                                  CommitOperationAdd(<<"README.md">>, ReadmeText))
          /\ pc' = "pcconfig"
          /\ error' = error
       \/ /\ Raise("HfHubHTTPError")
          /\ operations' = operations
    /\ UNCHANGED <<layout_vars, remote, runs, app_name, repo_id, status_code, is_new,
                   commit_message, fn_vars>>

\* lines 111-130
SetupPcconfig ==
    /\ pc = "pcconfig"
    /\ net_calls' = Append(net_calls, "hf_hub_download pcconfig_docker.py")
    /\ \/ /\ operations' = Append(operations,
                CommitOperationAdd(<<"pcconfig_docker.py">>,
                                   ReplaceDefaultApp(remote.pcconfig, app_name)))
          /\ pc' = "dockerfile"
          /\ error' = error
       \/ /\ Raise("HfHubHTTPError")
          /\ operations' = operations
    /\ UNCHANGED <<layout_vars, remote, runs, app_name, repo_id, status_code, is_new,
                   commit_message, fn_vars>>

\* lines 133-146
SetupDockerfile ==
    /\ pc = "dockerfile"
    /\ net_calls' = Append(net_calls, "hf_hub_download Dockerfile")
    /\ \/ /\ operations' = Append(operations,
                CommitOperationAdd(<<"Dockerfile">>,
                                   ReplaceDefaultApp(remote.dockerfile, app_name)))
          /\ pc' = "requirements"
          /\ error' = error
       \/ /\ Raise("HfHubHTTPError")
          /\ operations' = operations
    /\ UNCHANGED <<layout_vars, remote, runs, app_name, repo_id, status_code, is_new,
                   commit_message, fn_vars>>

requirements_path == Root \o <<"requirements.txt">>

\* the upload queued before the delete
RequirementsOps_AddFirst ==
    IF is_file(Root \o <<"requirements.txt">>)
    THEN <<CommitOperationAdd(<<"requirements.txt">>, "file"),
           CommitOperationDelete(<<"requirements.txt">>, FALSE)>>
    ELSE <<>>

\* lines 154-157
RequirementsOps ==
    IF is_file(requirements_path)
    THEN <<CommitOperationDelete(<<"requirements.txt">>, FALSE),
           CommitOperationAdd(<<"requirements.txt">>, "file")>>
    ELSE <<>>

\* lines 152-159
SyncRequirements ==
    /\ pc = "requirements"
    /\ operations' = operations \o RequirementsOps
    /\ pc' = "assets"
    /\ UNCHANGED <<layout_vars, remote, runs, app_name, repo_id, status_code, is_new,
                   net_calls, error, commit_message, fn_vars>>

\* lines 165-166: the files glob yields below the assets folder
AssetFiles == {p \in glob(assets_path) : is_file(p)}

\* the folder delete queued after the uploads
AssetsOps_DeleteLast(order) ==
    [i \in 1..Len(order) |->
        CommitOperationAdd(SubSeq(order[i], Len(Root) + 1, Len(order[i])), "file")]
    \o <<CommitOperationDelete(<<"assets">>, TRUE)>>

\* lines 164-171, for the order in which glob yields the files
AssetsOps(order) ==
    <<CommitOperationDelete(<<"assets">>, TRUE)>>
    \o [i \in 1..Len(order) |->
            CommitOperationAdd(relative_to(order[i], Root), "file")]

\* lines 161-171
SyncAssets ==
    /\ pc = "assets"
    /\ \E order \in Orderings(AssetFiles) :
            operations' = operations \o AssetsOps(order)
    /\ pc' = "app"
    /\ UNCHANGED <<layout_vars, remote, runs, app_name, repo_id, status_code, is_new,
                   net_calls, error, commit_message, fn_vars>>

\* lines 179-180: the files glob yields below the app folder, less the filtered ones
AppFiles == {p \in glob(app_path) : is_file(p) /\ ~ContainsPycache(p)}

\* line 177
AppFolderToDelete == IF is_new = "True" THEN "default_app" ELSE app_name

\* lines 176-185, for the order in which glob yields the files
AppFolderOps(order) ==
    <<CommitOperationDelete(<<AppFolderToDelete>>, TRUE)>>
    \o [i \in 1..Len(order) |->
            CommitOperationAdd(relative_to(order[i], Root), "file")]

\* lines 173-185
SyncAppFolder ==
    /\ pc = "app"
    /\ \E order \in Orderings(AppFiles) :
            operations' = operations \o AppFolderOps(order)
    /\ pc' = "commit"
    /\ UNCHANGED <<layout_vars, remote, runs, app_name, repo_id, status_code, is_new,
                   net_calls, error, commit_message, fn_vars>>

\* line 193
CommitMessage == IF is_new = "True" THEN "Deploy!" ELSE "Update"

\* lines 187-199: the commit lands as a whole or fails as a whole
CreateCommit ==
    /\ pc = "commit"
    /\ net_calls' = Append(net_calls, "create_commit")
    /\ commit_message' = CommitMessage
    /\ \/ /\ remote' = ApplyOps(remote, operations)
          /\ pc' = "done"
          /\ error' = error
       \/ /\ Raise("HfHubHTTPError")
          /\ remote' = remote
    /\ UNCHANGED <<layout_vars, runs, app_name, repo_id, status_code, is_new,
                   operations, fn_vars>>

\* the command is run again on the same layout and the same account
NextRun ==
    /\ pc \in {"done", "failed"}
    /\ runs < MaxRuns
    /\ runs' = runs + 1
    /\ pc' = "start"
    /\ app_name' = None
    /\ repo_id' = <<>>
    /\ status_code' = 0
    /\ is_new' = Unbound
    /\ operations' = <<>>
    /\ net_calls' = <<>>
    /\ error' = None
    /\ commit_message' = None
    /\ UNCHANGED <<layout_vars, remote, fn_vars>>

Next ==
    \/ CheckPcconfigFile
    \/ ExtractAppName
    \/ CheckAppPath
    \/ CheckAssetsPath
    \/ Whoami
    \/ DuplicateRepo
    \/ PrepareOperations
    \/ SetupReadme
    \/ SetupPcconfig
    \/ SetupDockerfile
    \/ SyncRequirements
    \/ SyncAssets
    \/ SyncAppFolder
    \/ CreateCommit
    \/ NextRun

Spec == Init /\ [][Next]_vars

(***************************************************************************)
(* The name curation of lines 48-50 as a function of its input: every app  *)
(* name over a small alphabet, and the name "My App!!_2".                  *)
(***************************************************************************)
CurateAlphabet == {"a", "B", "2", "_", "-", " ", "!", "U+00E9"}

ExampleName == <<"M","y"," ","A","p","p","!","!","_","2">>
ExampleCurated == <<"M","y","-","A","p","p","-","2">>

\* a deploy() that is not running, on an empty layout
DeployIdle ==
    /\ fs_files = {}
    /\ fs_dirs = {}
    /\ cwd_readme = FALSE
    /\ match = None
    /\ remote = NoRemote
    /\ runs = 1
    /\ RunInit

InitCurate ==
    /\ DeployIdle
    /\ text \in SeqsUpTo(CurateAlphabet, MaxNameLen) \cup {ExampleName}
    /\ result = [found |-> FALSE, group |-> <<>>]
    /\ phase = "input"

\* line 50
Curate ==
    /\ phase = "input"
    /\ result' = [found |-> TRUE, group |-> CuratedName(text)]
    /\ phase' = "curated"
    /\ UNCHANGED <<layout_vars, remote, runs, pc, app_name, repo_id, status_code,
                   is_new, operations, net_calls, error, commit_message, text>>

NextCurate == Curate

SpecCurate == InitCurate /\ [][NextCurate]_vars

(***************************************************************************)
(* The extraction of the app name of lines 28-33 as a function of the text *)
(* of the config file: every text of a few tokens.                         *)
(***************************************************************************)
ConfigTokens == {KW, DQ, SQ, COMMA, NL, "a"}

InitExtract ==
    /\ DeployIdle
    /\ text \in SeqsUpTo(ConfigTokens, MaxTextLen)
    /\ result = [found |-> FALSE, group |-> <<>>]
    /\ phase = "input"

\* lines 28-33
SearchAppName ==
    /\ phase = "input"
    /\ result' = RegexSearch(text)
    /\ IF result'.found
       THEN pc' = "check_app" /\ error' = error
       ELSE Raise("ValueError: Could not find app_name")
    /\ phase' = "searched"
    /\ UNCHANGED <<layout_vars, remote, runs, app_name, repo_id, status_code,
                   is_new, operations, net_calls, commit_message, text>>

NextExtract == SearchAppName

SpecExtract == InitExtract /\ [][NextExtract]_vars

(***************************************************************************)
(* Vocabulary of the properties.                                           *)
(***************************************************************************)
\* create_commit has been called in the running invocation
CommitCalled == "create_commit" \in Range(net_calls)

\* the positions of an operation in the list
Indices(o) == {i \in 1..Len(operations) : operations[i] = o}

ConfigPaths == {<<"README.md">>, <<"pcconfig_docker.py">>, <<"Dockerfile">>}

HasAdd(path) ==
    \E i \in 1..Len(operations) : operations[i].op = "add" /\ operations[i].path = path

\* the local files below a top-level folder, relative to the config folder
LocalFilesUnder(folder) ==
    {SubSeq(p, Len(Root) + 1, Len(p)) : p \in {q \in fs_files : IsPrefix(Root \o <<folder>>, q)}}

\* C1: for every app name the curated name has only characters of
\* [A-Za-z0-9-], no two consecutive "-", no leading or trailing "-", and
\* "My App!!_2" is curated to "My-App-2".
C1_CuratedIsSlug ==
    phase = "curated" =>
        LET c == result.group
        IN  /\ \A i \in 1..Len(c) : c[i] \in SlugChars
            /\ \A i \in 1..(Len(c) - 1) : ~(c[i] = "-" /\ c[i + 1] = "-")
            /\ c # <<>> => c[1] # "-" /\ c[Len(c)] # "-"
            /\ text = ExampleName => c = ExampleCurated

\* C2: when the duplicate request answers an error status other than 409,
\* no operation is ever constructed and create_commit is never called: the
\* invocation stops right after the except clause.
C2_AbortBeforeOperations ==
    status_code \in ErrorStatuses =>
        /\ operations = <<>>
        /\ ~CommitCalled
        /\ pc \in {"prepare", "failed"}

C2_Witness ==
    /\ status_code \in ErrorStatuses
    /\ pc = "failed"
    /\ net_calls = <<"whoami", "duplicate">>

\* C3: for every error status other than 409 the HTTP error raised by
\* hf_raise_for_status is the error that terminates the invocation.
C3_HttpErrorPropagates ==
    (pc = "failed" /\ status_code \in ErrorStatuses) => error = "HfHubHTTPError"

\* the names a text assigns: app_name=<quote><name><same quote>, the name
\* being non-empty, on one line and free of that quote
AssignedNames(t) ==
    {SubSeq(t, i + 2, j) : <<i, j>> \in
        {ij \in (1..Len(t)) \X (1..Len(t)) :
            /\ ij[2] >= ij[1] + 2
            /\ ij[2] + 1 <= Len(t)
            /\ t[ij[1]] = KW
            /\ t[ij[1] + 1] \in Quotes
            /\ \A k \in (ij[1] + 2)..ij[2] : t[k] \notin {t[ij[1] + 1], NL}
            /\ t[ij[2] + 1] = t[ij[1] + 1]}}

\* C4: a config text that holds an assignment app_name="<name>" yields
\* <name>; a text that holds none fails with 'Could not find app_name'.
C4_ExtractsAssignedName ==
    phase = "searched" =>
        IF AssignedNames(text) # {}
        THEN result.found /\ result.group \in AssignedNames(text)
        ELSE ~result.found /\ error = "ValueError: Could not find app_name"

\* C5 as first stated: the list passed to create_commit has the Adds of
\* README.md, pcconfig_docker.py and Dockerfile iff the duplication
\* succeeded, and after a 409 it has no operation on these three paths.
C5_Original ==
    CommitCalled =>
        /\ status_code = 200 <=> \A p \in ConfigPaths : HasAdd(p)
        /\ status_code = 409 =>
              \A i \in 1..Len(operations) : operations[i].path \notin ConfigPaths

\* C5: the list passed to create_commit has the Adds of README.md,
\* pcconfig_docker.py and Dockerfile iff the duplication succeeded; after a
\* 409 it has no Add on these three paths, and the only operation that can
\* name one of them is the folder Delete of the app's own folder.
C5_ConfigAddsIffNew ==
    CommitCalled =>
        /\ status_code = 200 <=> \A p \in ConfigPaths : HasAdd(p)
        /\ status_code = 409 =>
              \A i \in 1..Len(operations) :
                  operations[i].path \in ConfigPaths =>
                      operations[i] = CommitOperationDelete(<<app_name>>, TRUE)

C5_Witness ==
    /\ CommitCalled
    /\ status_code = 409
    /\ app_name = "demo"
    /\ Len(operations) >= 4

AssetsDelete == CommitOperationDelete(<<"assets">>, TRUE)

\* one Delete of the assets folder, before one Add per local assets file,
\* and every Add below assets/ is the relative path of a local file
AssetsSynced ==
    /\ Cardinality(Indices(AssetsDelete)) = 1
    /\ \A f \in LocalFilesUnder("assets") :
          /\ Cardinality(Indices(CommitOperationAdd(f, "file"))) = 1
          /\ \A i \in Indices(AssetsDelete), j \in Indices(CommitOperationAdd(f, "file")) :
                i < j
    /\ \A j \in 1..Len(operations) :
          (operations[j].op = "add" /\ operations[j].path[1] = "assets")
              => operations[j].path \in LocalFilesUnder("assets")

\* C6 as first stated: for every local layout and both modes.
C6_Original == CommitCalled => AssetsSynced

\* C6: for every local layout whose app folder is not the assets folder, and
\* both modes, the list passed to create_commit has exactly one
\* Delete("assets", folder), before one Add per local assets file, each at
\* the file's path relative to the config folder.
C6_AssetsSynced == (CommitCalled /\ app_name # "assets") => AssetsSynced

C6_Witness ==
    /\ CommitCalled
    /\ app_name = "demo"
    /\ status_code = 409
    /\ Cardinality(LocalFilesUnder("assets")) = 2

\* the precondition of lines 24-43 that fails first on the layout, if any
FirstViolation ==
    IF ~is_file(PcconfigPath) THEN "ValueError: Could not find pcconfig file"
    ELSE IF match = None THEN "ValueError: Could not find app_name"
    ELSE IF ~is_dir(Root \o <<match>>) THEN "ValueError: Could not find app folder"
    ELSE IF ~is_dir(Root \o <<"assets">>) THEN "ValueError: Could not find assets folder"
    ELSE None

\* C7: when a local precondition is violated the invocation never gets
\* past the checks, makes no network call, and the error it raises names
\* the missing file, field or folder.
C7_PreconditionsBeforeNetwork ==
    FirstViolation # None =>
        /\ net_calls = <<>>
        /\ operations = <<>>
        /\ remote = NoRemote
        /\ pc \in {"start", "search", "check_app", "check_assets", "failed"}
        /\ pc = "failed" => error = FirstViolation

C7_Witness ==
    /\ pc = "failed"
    /\ error = "ValueError: Could not find assets folder"
    /\ is_dir(Root \o <<"demo">>)

\* C8: the list has the folder Delete of "default_app" (new) or of the app's
\* name (existing), followed by an Add for every local app file that is not
\* a cache artifact, at its path relative to the config folder.
C8_AppFolderSynced ==
    CommitCalled =>
        LET del == CommitOperationDelete(
                       <<IF status_code = 200 THEN "default_app" ELSE app_name>>, TRUE)
        IN  /\ Indices(del) # {}
            /\ \A f \in LocalFilesUnder(app_name) :
                  ~IsCacheArtifact(f) =>
                      \E i \in Indices(del), j \in Indices(CommitOperationAdd(f, "file")) :
                          i < j

\* a Delete that removes what an Add puts: the same path, or a folder above it
Covers(d, a) ==
    /\ d.op = "delete"
    /\ a.op = "add"
    /\ \/ a.path = d.path
       \/ d.is_folder /\ IsPrefix(d.path, a.path)

\* the list is complete: it is what create_commit gets
ListComplete == pc = "commit" \/ CommitCalled

DeletesPrecedeAdds ==
    /\ \A i, j \in 1..Len(operations) :
          Covers(operations[i], operations[j]) => i < j
    /\ (ListComplete /\ is_file(requirements_path)) =>
          \E i \in 1..(Len(operations) - 1) :
              /\ operations[i] = CommitOperationDelete(<<"requirements.txt">>, FALSE)
              /\ operations[i + 1] = CommitOperationAdd(<<"requirements.txt">>, "file")

\* C9 as first stated: in every operation list deploy builds.
C9_Original == DeletesPrecedeAdds

\* C9: in every operation list deploy builds for an app folder that is not
\* the assets folder, each Delete precedes every Add on the deleted path or
\* below the deleted folder, and Delete("requirements.txt") is immediately
\* followed by Add("requirements.txt") when the file exists locally.
C9_DeletesPrecedeAdds == match # "assets" => DeletesPrecedeAdds

C9_Witness ==
    /\ CommitCalled
    /\ app_name = "demo"
    /\ is_file(requirements_path)
    /\ Cardinality(LocalFilesUnder("demo")) = 3
    /\ LocalFilesUnder("assets") # {}

\* C10: whatever happened in earlier invocations, an invocation that
\* completes its create_commit leaves the Space configured: both files name
\* the real app and the folder default_app is gone.
C10_CommitLeavesConfigured ==
    pc = "done" =>
        /\ remote.pcconfig = app_name
        /\ remote.dockerfile = app_name
        /\ ~\E f \in remote.files : f[1] = "default_app"

====
